---- MODULE Spec2Model ----
(***************************************************************************)
(* A model of one TCPPeer (src/overlay/TCPPeer.cpp) running on a           *)
(* single-threaded asio io_service.  Every completion handler is one       *)
(* atomic action; the operations the socket, the timer and the io_service  *)
(* have in flight are part of the state.  An operation started on the open *)
(* socket may have completed with success at any time before the socket    *)
(* was closed, so its handler can run with success even after the close;   *)
(* it can always run with an error (a transport error, or                  *)
(* operation_aborted after close()).  An operation started on a socket     *)
(* that is not open can only fail.                                         *)
(*                                                                         *)
(* The handlers are written as operators from a peer record to a peer     *)
(* record (the record holds every variable of the module plus the          *)
(* transient field `thrown`: an exception is propagating), so that one     *)
(* action can chain the calls a handler makes in the order the code makes  *)
(* them.                                                                   *)
(***************************************************************************)
EXTENDS Integers, Sequences, FiniteSets, TLC

VARIABLES
    created,              \* "none" | "accept" | "initiate": which factory built the peer
    mRole,                \* Peer::mRole
    mState,               \* Peer::mState
    mRemoteListeningPort, \* Peer::mRemoteListeningPort
    sock,                 \* *mSocket: "none" | "connecting" | "open" | "failed" | "closed"
    connectOp,            \* the async_connect of initiate(): "none" | "pending" | "done"
    timer,                \* mHelloTimer and its async_wait
    reads,                \* async_read operations in flight, in issue order
    mIncomingHeader,      \* the 4 header bytes
    mIncomingBody,        \* mIncomingBody.size()
    writes,               \* async_write operations in flight, in issue order
    bufs,                 \* the message buffers that are allocated
    nextBuf,              \* the next buffer identity
    posted,               \* teardown lambdas posted to the io_service, not yet run
    db,                   \* the PeerRecord table, by listening port
    clock,                \* mApp.getClock().now()
    mMessageRead, mMessageWrite, mByteWrite, \* the medida meters
    frames,               \* headers delivered by the remote so far
    sends,                \* sendMessage calls made by the rest of the overlay
    \* what the collaborators observed
    dropCalls, dropPeerCalls, shutdownCalls, closeCalls,
    teardownLog,          \* what the posted lambda did, in the order it did it
    loadCalls, storeCalls, acceptQueries, sentHello, sentPeers, dispatched,
    \* what happened so far
    timerDrops,           \* timerExpired() ran (and called drop())
    handshakes,           \* hellos that passed validation and were processed
    helloRejected,        \* base validation rejected a hello
    capRejects,           \* hellos answered on the capacity-rejection branch
    oversize,             \* a header decoded to more than MAX_MESSAGE_SIZE
    readAfterOversize,    \* an async_read was started since then
    closingRead,          \* the kinds of async_read started while mState = CLOSING
    decodeFailed,         \* a body failed to decode
    writeErrors,          \* write completions that reported an error
    fault                 \* an exception left a handler for io_service::run

vars == << created, mRole, mState, mRemoteListeningPort, sock, connectOp, timer,
           reads, mIncomingHeader, mIncomingBody, writes, bufs, nextBuf,
           posted, db, clock, mMessageRead, mMessageWrite, mByteWrite, frames,
           sends, dropCalls, dropPeerCalls, shutdownCalls, closeCalls,
           teardownLog, loadCalls,
           storeCalls, acceptQueries, sentHello, sentPeers, dispatched,
           timerDrops, handshakes, helloRejected, capRejects, oversize,
           readAfterOversize, closingRead, decodeFailed, writeErrors, fault >>

----------------------------------------------------------------------------
\* Bounds of the model.

\* Frames (headers) the remote delivers on the connection.
MaxFrames == 1
\* sendMessage calls made by the rest of the overlay.
MaxSends == 1
\* Writes in flight at once.
MaxWrites == 3

\* Program constants.
MAX_MESSAGE_SIZE == 16777216

----------------------------------------------------------------------------
\* Inputs.

\* The values the clock takes.
Times == {0, 1}

\* The listening port a hello (or initiate) names.
Ports == {11625}

NoRecord == [none |-> TRUE]

\* A record already in the table when the connection is made: it has failed
\* three times and is backing off to a time after every value of the clock.
OldRecord == [mNumFailures |-> 3, mNextAttempt |-> 2]

\* Headers the remote can send: length 0, length 8 with the continuation
\* bit set, MAX_MESSAGE_SIZE, and 0x2000000.
Headers == { <<0, 0, 0, 0>>, <<128, 0, 0, 8>>, <<1, 0, 0, 0>>, <<2, 0, 0, 0>> }

\* The lengths a remote puts on the wire when only the header decoder is
\* exercised: every power of two up to 2^27, every power of two less one
\* up to 0x0FFFFFFF, and MAX_MESSAGE_SIZE + 1.
WireLengths ==
    {2 ^ j : j \in 0 .. 27} \cup {2 ^ j - 1 : j \in 0 .. 28}
      \cup {MAX_MESSAGE_SIZE + 1}

\* The sender's side of the framing: the length as four bytes, most
\* significant first, the reserved top bit of the first byte set or not.
EncodeLength(length, reserved) ==
    << (reserved * 128) + ((length \div (256 * 256 * 256)) % 128),
       (length \div (256 * 256)) % 256,
       (length \div 256) % 256,
       length % 256 >>

WireHeaders == {EncodeLength(l, r) : l \in WireLengths, r \in {0, 1}}

Malformed == [type |-> "MALFORMED"]

\* What a body can decode to: bytes that are no StellarMessage, a hello
\* (acceptable to base validation or not, naming a listening port), or
\* another message.
Payloads == {Malformed, [type |-> "TRANSACTION"]}
            \cup { [type |-> "HELLO", valid |-> TRUE, port |-> p] : p \in Ports }
            \cup { [type |-> "HELLO", valid |-> FALSE, port |-> 0] }

\* A StellarMessage is an XDR union: it needs at least its 4-byte
\* discriminant, so a shorter body cannot decode.
PayloadsOfSize(n) == IF n < 4 THEN {Malformed} ELSE Payloads

\* raw_size() of the serialized messages sent.
RawSize == [HELLO |-> 8, PEERS |-> 12, TRANSACTION |-> 4]

----------------------------------------------------------------------------
\* The peer record: the current state, no exception propagating.

St == [ created |-> created, mRole |-> mRole, mState |-> mState,
        mRemoteListeningPort |-> mRemoteListeningPort, sock |-> sock,
        connectOp |-> connectOp, timer |-> timer, reads |-> reads,
        mIncomingHeader |-> mIncomingHeader, mIncomingBody |-> mIncomingBody,
        writes |-> writes, bufs |-> bufs,
        nextBuf |-> nextBuf, posted |-> posted, db |-> db, clock |-> clock,
        mMessageRead |-> mMessageRead, mMessageWrite |-> mMessageWrite,
        mByteWrite |-> mByteWrite, frames |-> frames, sends |-> sends,
        dropCalls |-> dropCalls, dropPeerCalls |-> dropPeerCalls,
        shutdownCalls |-> shutdownCalls, closeCalls |-> closeCalls,
        teardownLog |-> teardownLog,
        loadCalls |-> loadCalls, storeCalls |-> storeCalls,
        acceptQueries |-> acceptQueries, sentHello |-> sentHello,
        sentPeers |-> sentPeers, dispatched |-> dispatched,
        timerDrops |-> timerDrops, handshakes |-> handshakes,
        helloRejected |-> helloRejected, capRejects |-> capRejects,
        oversize |-> oversize, readAfterOversize |-> readAfterOversize,
        closingRead |-> closingRead, decodeFailed |-> decodeFailed,
        writeErrors |-> writeErrors,
        fault |-> fault, thrown |-> FALSE ]

\* The handler has returned (or thrown) leaving the peer as s.
Commit(s) ==
    /\ created' = s.created
    /\ mRole' = s.mRole
    /\ mState' = s.mState
    /\ mRemoteListeningPort' = s.mRemoteListeningPort
    /\ sock' = s.sock
    /\ connectOp' = s.connectOp
    /\ timer' = s.timer
    /\ reads' = s.reads
    /\ mIncomingHeader' = s.mIncomingHeader
    /\ mIncomingBody' = s.mIncomingBody
    /\ writes' = s.writes
    /\ bufs' = s.bufs
    /\ nextBuf' = s.nextBuf
    /\ posted' = s.posted
    /\ db' = s.db
    /\ clock' = s.clock
    /\ mMessageRead' = s.mMessageRead
    /\ mMessageWrite' = s.mMessageWrite
    /\ mByteWrite' = s.mByteWrite
    /\ frames' = s.frames
    /\ sends' = s.sends
    /\ dropCalls' = s.dropCalls
    /\ dropPeerCalls' = s.dropPeerCalls
    /\ shutdownCalls' = s.shutdownCalls
    /\ closeCalls' = s.closeCalls
    /\ teardownLog' = s.teardownLog
    /\ loadCalls' = s.loadCalls
    /\ storeCalls' = s.storeCalls
    /\ acceptQueries' = s.acceptQueries
    /\ sentHello' = s.sentHello
    /\ sentPeers' = s.sentPeers
    /\ dispatched' = s.dispatched
    /\ timerDrops' = s.timerDrops
    /\ handshakes' = s.handshakes
    /\ helloRejected' = s.helloRejected
    /\ capRejects' = s.capRejects
    /\ oversize' = s.oversize
    /\ readAfterOversize' = s.readAfterOversize
    /\ closingRead' = s.closingRead
    /\ decodeFailed' = s.decodeFailed
    /\ writeErrors' = s.writeErrors
    /\ fault' = (s.fault \/ s.thrown)

\* seq without its i-th element.
RemoveAt(seq, i) == SubSeq(seq, 1, i - 1) \o SubSeq(seq, i + 1, Len(seq))

\* An exception is raised in s.
Throw(s) == [s EXCEPT !.thrown = TRUE]

----------------------------------------------------------------------------
\* TCPPeer::drop

\* drop without the check of mState.
drop_Unguarded(s) ==
    [s EXCEPT !.dropCalls = @ + 1, !.mState = "CLOSING", !.posted = @ + 1]

drop(s) ==
    LET c == [s EXCEPT !.dropCalls = @ + 1]
    IN  IF c.mState = "CLOSING"
        THEN c
        ELSE [c EXCEPT !.mState = "CLOSING", !.posted = @ + 1]

\* The lambda without the try/catch around shutdown: the exception leaves
\* the lambda before close().
dropLambda_NoCatch(s, shutdownFails) ==
    LET a == [s EXCEPT !.posted = @ - 1,
                       !.dropPeerCalls = @ + 1,
                       !.teardownLog = Append(@, "dropPeer")]
        b == [a EXCEPT !.shutdownCalls = @ + 1,
                       !.teardownLog =
                          Append(@, IF shutdownFails THEN "shutdown failed"
                                    ELSE "shutdown")]
    IN  IF shutdownFails
        THEN Throw(b)
        ELSE [b EXCEPT !.closeCalls = @ + 1,
                       !.sock = "closed",
                       !.teardownLog = Append(@, "close")]

\* The lambda drop() posts: dropPeer, then shutdown with its failure caught
\* and logged, then close.
dropLambda(s, shutdownFails) ==
    LET a == [s EXCEPT !.posted = @ - 1,
                       !.dropPeerCalls = @ + 1,
                       !.teardownLog = Append(@, "dropPeer")]
        b == [a EXCEPT !.shutdownCalls = @ + 1,
                       !.teardownLog =
                          Append(@, IF shutdownFails THEN "shutdown failed"
                                    ELSE "shutdown")]
    IN  [b EXCEPT !.closeCalls = @ + 1,
                  !.sock = "closed",
                  !.teardownLog = Append(@, "close")]

----------------------------------------------------------------------------
\* TCPPeer::sendMessage and TCPPeer::writeHandler

\* sendMessage whose completion lambda does not capture buf: the buffer
\* goes away when sendMessage returns.
sendMessage_NoCapture(s, m) ==
    [s EXCEPT !.nextBuf = @ + 1,
              !.writes = Append(@, [buf |-> s.nextBuf, msg |-> m,
                                    open |-> s.sock = "open"])]

sendMessage(s, m) ==
    [s EXCEPT !.bufs = @ \cup {s.nextBuf},
              !.nextBuf = @ + 1,
              !.writes = Append(@, [buf |-> s.nextBuf, msg |-> m,
                                    open |-> s.sock = "open"])]

\* writeHandler that marks the meters before it looks at the error.
writeHandler_CountsOnError(s, error, bytes_transferred) ==
    LET t == [s EXCEPT !.mMessageWrite = @ + 1,
                       !.mByteWrite = @ + bytes_transferred]
    IN  IF error
        THEN drop([t EXCEPT !.writeErrors = @ + 1])
        ELSE t

\* TCPPeer::writeHandler
writeHandler(s, error, bytes_transferred) ==
    IF error
    THEN drop([s EXCEPT !.writeErrors = @ + 1])
    ELSE [s EXCEPT !.mMessageWrite = @ + 1,
                   !.mByteWrite = @ + bytes_transferred]

\* The completion lambda of sendMessage: writeHandler, then the captured
\* buffer goes away with the lambda.
writeLambda(s, i, error) ==
    LET w == s.writes[i]
        t == [s EXCEPT !.writes = RemoveAt(@, i)]
        u == writeHandler(t, error, IF error THEN 0 ELSE RawSize[w.msg])
    IN  [u EXCEPT !.bufs = @ \ {w.buf}]

----------------------------------------------------------------------------
\* The read chain

\* asio::async_read on *mSocket.
asyncRead(s, kind) ==
    [s EXCEPT !.reads = Append(@, [kind |-> kind, open |-> s.sock = "open"]),
              !.closingRead = IF s.mState = "CLOSING" THEN @ \cup {kind}
                              ELSE @,
              !.readAfterOversize = @ \/ s.oversize]

\* The log line of startRead calls mSocket->remote_endpoint(), which throws
\* on a socket that is not connected.
startRead(s) ==
    IF s.sock # "open" THEN Throw(s) ELSE asyncRead(s, "header")

\* The decoder without the mask: the top bit of the first byte lands in
\* the sign bit of the 32-bit int.
DecodeLength_NoMask(h) ==
    LET low == ((((h[1] % 128) * 256 + h[2]) * 256) + h[3]) * 256 + h[4]
    IN  IF h[1] >= 128 THEN low - 2147483647 - 1 ELSE low

DecodeLength(h) ==
    ((((h[1] % 128) * 256 + h[2]) * 256) + h[3]) * 256 + h[4]

\* getIncomingMsgLength refusing MAX_MESSAGE_SIZE itself.
getIncomingMsgLength_Exclusive(s) ==
    LET length == DecodeLength(s.mIncomingHeader)
    IN  IF length < 0 \/ length >= MAX_MESSAGE_SIZE
        THEN drop([s EXCEPT !.oversize = TRUE])
        ELSE s

\* TCPPeer::getIncomingMsgLength: the peer after the call; the value
\* returned is DecodeLength(s.mIncomingHeader) on both paths.
getIncomingMsgLength(s) ==
    LET length == DecodeLength(s.mIncomingHeader)
    IN  IF length < 0 \/ length > MAX_MESSAGE_SIZE
        THEN drop([s EXCEPT !.oversize = TRUE])
        ELSE s

\* readHeaderHandler that, besides reading the body, starts the next
\* header read at once.
readHeaderHandler_Rearms(s, error) ==
    IF ~error
    THEN LET t == getIncomingMsgLength(s)
             u == [t EXCEPT !.mIncomingBody = DecodeLength(s.mIncomingHeader)]
         IN  startRead(asyncRead(u, "body"))
    ELSE drop(s)

readHeaderHandler(s, error) ==
    IF ~error
    THEN LET t == getIncomingMsgLength(s)
             u == [t EXCEPT !.mIncomingBody = DecodeLength(s.mIncomingHeader)]
         IN  asyncRead(u, "body")
    ELSE drop(s)

----------------------------------------------------------------------------
\* Hello processing

\* PeerRecord::loadPeerRecord
loadPeerRecord(s) == [s EXCEPT !.loadCalls = @ + 1]

\* PeerRecord::fromIPPort: a record with the default fields.
fromIPPort(now) == [mNumFailures |-> 0, mNextAttempt |-> now]

\* PeerRecord::storePeerRecord
storePeerRecord(s, pr) ==
    [s EXCEPT !.db[s.mRemoteListeningPort] = pr, !.storeCalls = @ + 1]

\* Peer::sendHello and Peer::sendPeers serialize a message and hand it to
\* sendMessage.
sendHello(s) == sendMessage([s EXCEPT !.sentHello = @ + 1], "HELLO")

sendPeers(s) == sendMessage([s EXCEPT !.sentPeers = @ + 1], "PEERS")

\* mHelloTimer.cancel(): a wait still pending completes with
\* operation_aborted; a wait that has already expired keeps its handler,
\* queued with success.
cancelTimer(s) ==
    [s EXCEPT !.timer = IF @ = "armed" THEN "aborted" ELSE @]

\* Peer::recvHello, the base validation: it reads the listening port from
\* the hello and accepts or rejects it.
Peer_recvHello(s, msg) ==
    IF msg.valid
    THEN [s EXCEPT !.mRemoteListeningPort = msg.port]
    ELSE [s EXCEPT !.helloRejected = TRUE]

\* recvHello answering an admitted peer with the peers before the hello.
recvHello_PeersFirst(s, msg, accepted) ==
    LET a == cancelTimer(s)
        b == Peer_recvHello(a, msg)
    IN  IF ~msg.valid
        THEN b
        ELSE
          LET h == [b EXCEPT !.handshakes = @ + 1]
              found == h.db[h.mRemoteListeningPort] # NoRecord
              l == loadPeerRecord(h)
          IN  IF h.mRole = "INITIATOR"
              THEN LET r == IF found THEN l
                            ELSE storePeerRecord(l, fromIPPort(l.clock))
                       q == [r EXCEPT !.acceptQueries = @ + 1]
                   IN  IF accepted
                       THEN sendHello(sendPeers(q))
                       ELSE drop(sendPeers([q EXCEPT !.capRejects = @ + 1]))
              ELSE LET pr == IF found THEN l.db[l.mRemoteListeningPort]
                             ELSE fromIPPort(l.clock)
                   IN  storePeerRecord(l,
                         [pr EXCEPT !.mNumFailures = 0,
                                    !.mNextAttempt = l.clock])

\* recvHello that stores the record of an accepted connection whether it
\* was loaded or created.
recvHello_AlwaysStores(s, msg, accepted) ==
    LET a == cancelTimer(s)
        b == Peer_recvHello(a, msg)
    IN  IF ~msg.valid
        THEN b
        ELSE
          LET h == [b EXCEPT !.handshakes = @ + 1]
              found == h.db[h.mRemoteListeningPort] # NoRecord
              l == loadPeerRecord(h)
          IN  IF h.mRole = "INITIATOR"
              THEN LET r == storePeerRecord(l, fromIPPort(l.clock))
                       q == [r EXCEPT !.acceptQueries = @ + 1]
                   IN  IF accepted
                       THEN sendPeers(sendHello(q))
                       ELSE drop(sendPeers([q EXCEPT !.capRejects = @ + 1]))
              ELSE LET pr == IF found THEN l.db[l.mRemoteListeningPort]
                             ELSE fromIPPort(l.clock)
                   IN  storePeerRecord(l,
                         [pr EXCEPT !.mNumFailures = 0,
                                    !.mNextAttempt = l.clock])

\* recvHello that marks the connection active once the handshake is done.
recvHello_MarksActive(s, msg, accepted) ==
    LET a == cancelTimer(s)
        b == Peer_recvHello(a, msg)
    IN  IF ~msg.valid
        THEN b
        ELSE
          LET h == [b EXCEPT !.handshakes = @ + 1, !.mState = "ACTIVE"]
              found == h.db[h.mRemoteListeningPort] # NoRecord
              l == loadPeerRecord(h)
          IN  IF h.mRole = "INITIATOR"
              THEN LET r == IF found THEN l
                            ELSE storePeerRecord(l, fromIPPort(l.clock))
                       q == [r EXCEPT !.acceptQueries = @ + 1]
                   IN  IF accepted
                       THEN sendPeers(sendHello(q))
                       ELSE drop(sendPeers([q EXCEPT !.capRejects = @ + 1]))
              ELSE LET pr == IF found THEN l.db[l.mRemoteListeningPort]
                             ELSE fromIPPort(l.clock)
                   IN  storePeerRecord(l,
                         [pr EXCEPT !.mNumFailures = 0,
                                    !.mNextAttempt = l.clock])

\* recvHello that, having connected out, stores the record it loaded
\* without clearing its failures.
recvHello_KeepsFailures(s, msg, accepted) ==
    LET a == cancelTimer(s)
        b == Peer_recvHello(a, msg)
    IN  IF ~msg.valid
        THEN b
        ELSE
          LET h == [b EXCEPT !.handshakes = @ + 1]
              found == h.db[h.mRemoteListeningPort] # NoRecord
              l == loadPeerRecord(h)
          IN  IF h.mRole = "INITIATOR"
              THEN LET r == IF found THEN l
                            ELSE storePeerRecord(l, fromIPPort(l.clock))
                       q == [r EXCEPT !.acceptQueries = @ + 1]
                   IN  IF accepted
                       THEN sendPeers(sendHello(q))
                       ELSE drop(sendPeers([q EXCEPT !.capRejects = @ + 1]))
              ELSE LET pr == IF found THEN l.db[l.mRemoteListeningPort]
                             ELSE fromIPPort(l.clock)
                   IN  storePeerRecord(l,
                         [pr EXCEPT !.mNextAttempt = l.clock])

\* TCPPeer::recvHello.  The value returned is msg.valid.
recvHello(s, msg, accepted) ==
    LET a == cancelTimer(s)
        b == Peer_recvHello(a, msg)
    IN  IF ~msg.valid
        THEN b
        ELSE
          LET h == [b EXCEPT !.handshakes = @ + 1]
              found == h.db[h.mRemoteListeningPort] # NoRecord
              l == loadPeerRecord(h)
          IN  IF h.mRole = "INITIATOR"
              THEN LET r == IF found THEN l
                            ELSE storePeerRecord(l, fromIPPort(l.clock))
                       q == [r EXCEPT !.acceptQueries = @ + 1]
                   IN  IF accepted
                       THEN sendPeers(sendHello(q))
                       ELSE drop(sendPeers([q EXCEPT !.capRejects = @ + 1]))
              ELSE LET pr == IF found THEN l.db[l.mRemoteListeningPort]
                             ELSE fromIPPort(l.clock)
                   IN  storePeerRecord(l,
                         [pr EXCEPT !.mNumFailures = 0,
                                    !.mNextAttempt = l.clock])

\* Peer::recvMessage, the dispatcher: a hello goes to recvHello, whose
\* failure is a protocol error that tears the connection down; any other
\* message goes to the handlers of the overlay.
\* The dispatcher ignoring what recvHello returns.
Peer_recvMessage_IgnoresResult(s, msg, accepted) ==
    IF msg.type = "HELLO"
    THEN recvHello(s, msg, accepted)
    ELSE [s EXCEPT !.dispatched = @ + 1]

Peer_recvMessage(s, msg, accepted) ==
    IF msg.type = "HELLO"
    THEN LET t == recvHello(s, msg, accepted)
         IN  IF msg.valid THEN t ELSE drop(t)
    ELSE [s EXCEPT !.dispatched = @ + 1]

\* TCPPeer::recvMessage: xdr_argpack_archive throws on bytes that are no
\* StellarMessage, and nothing here catches it.
\* body is what the bytes read into mIncomingBody decode to.
recvMessage(s, body, accepted) ==
    LET t == [s EXCEPT !.mMessageRead = @ + 1]
    IN  IF body.type = "MALFORMED"
        THEN Throw([t EXCEPT !.decodeFailed = TRUE])
        ELSE Peer_recvMessage(t, body, accepted)

readBodyHandler(s, error, body, accepted) ==
    IF ~error
    THEN LET t == recvMessage(s, body, accepted)
         IN  IF t.thrown THEN t ELSE startRead(t)
    ELSE drop(s)

----------------------------------------------------------------------------
\* TCPPeer::timerExpired

timerExpired(s) == drop([s EXCEPT !.timerDrops = @ + 1])

\* Peer::connectHandler: a failed connect tears the connection down, a
\* successful one makes the peer active and starts the read loop.
connected(s) == startRead(s)

connectHandler(s, error) ==
    IF error
    THEN drop(s)
    ELSE connected([s EXCEPT !.mState = "ACTIVE"])

----------------------------------------------------------------------------
\* The initial state: no peer yet; the table holds any mix of old records.

Init ==
    /\ created = "none"
    /\ mRole = "NONE"
    /\ mState = "NONE"
    /\ mRemoteListeningPort = 0
    /\ sock = "none"
    /\ connectOp = "none"
    /\ timer = "idle"
    /\ reads = << >>
    /\ mIncomingHeader = <<0, 0, 0, 0>>
    /\ mIncomingBody = 0
    /\ writes = << >>
    /\ bufs = {}
    /\ nextBuf = 1
    /\ posted = 0
    /\ db \in [Ports -> {NoRecord, OldRecord}]
    /\ clock = 0
    /\ mMessageRead = 0
    /\ mMessageWrite = 0
    /\ mByteWrite = 0
    /\ frames = 0
    /\ sends = 0
    /\ dropCalls = 0
    /\ dropPeerCalls = 0
    /\ shutdownCalls = 0
    /\ closeCalls = 0
    /\ teardownLog = << >>
    /\ loadCalls = 0
    /\ storeCalls = 0
    /\ acceptQueries = 0
    /\ sentHello = 0
    /\ sentPeers = 0
    /\ dispatched = 0
    /\ timerDrops = 0
    /\ handshakes = 0
    /\ helloRejected = FALSE
    /\ capRejects = 0
    /\ oversize = FALSE
    /\ readAfterOversize = FALSE
    /\ closingRead = {}
    /\ decodeFailed = FALSE
    /\ writeErrors = 0
    /\ fault = FALSE

----------------------------------------------------------------------------
\* Actions

\* TCPPeer::accept: the peer is built on an open socket (role INITIATOR:
\* the remote initiated; the Peer constructor makes such a peer active), the
\* hello timer is armed, the read loop starts.
Accept ==
    /\ created = "none"
    /\ Commit(startRead([St EXCEPT !.created = "accept",
                                   !.mRole = "INITIATOR",
                                   !.mState = "ACTIVE",
                                   !.sock = "open",
                                   !.timer = "armed"]))

\* TCPPeer::initiate: the peer is built (role ACCEPTOR: the remote
\* accepts) and the connect is started.
Initiate ==
    /\ created = "none"
    /\ \E port \in Ports :
         Commit([St EXCEPT !.created = "initiate",
                           !.mRole = "ACCEPTOR",
                           !.mState = "CONNECTING",
                           !.mRemoteListeningPort = port,
                           !.sock = "connecting",
                           !.connectOp = "pending"])

\* The completion lambda of async_connect runs: the connect succeeded or
\* failed.
ConnectHandler ==
    /\ connectOp = "pending"
    /\ \E error \in BOOLEAN :
         Commit(connectHandler([St EXCEPT !.connectOp = "done",
                                          !.sock = IF error THEN "failed"
                                                   ELSE "open"],
                               error))

\* The deadline passes: the wait completes with success and its handler is
\* queued.
TimerFires ==
    /\ timer = "armed"
    /\ Commit([St EXCEPT !.timer = "fired"])

\* The completion lambda of mHelloTimer.async_wait runs.
TimerHandler ==
    /\ timer \in {"fired", "aborted"}
    /\ Commit(IF timer = "fired"
              THEN timerExpired([St EXCEPT !.timer = "done"])
              ELSE [St EXCEPT !.timer = "done"])

\* The completion lambda of startRead runs: the remote sent the 4 bytes of
\* a header, or the read failed.
HeaderHandler ==
    \E i \in DOMAIN reads :
      /\ reads[i].kind = "header"
      /\ \/ /\ reads[i].open
            /\ frames < MaxFrames
            /\ \E h \in Headers :
                 Commit(readHeaderHandler(
                          [St EXCEPT !.reads = RemoveAt(@, i),
                                     !.mIncomingHeader = h,
                                     !.frames = @ + 1], FALSE))
         \/ Commit(readHeaderHandler([St EXCEPT !.reads = RemoveAt(@, i)], TRUE))

\* The clock is read while a valid hello is processed; it may have moved on.
Nows(d) == IF d.type = "HELLO" /\ d.valid
           THEN {t \in Times : t >= clock}
           ELSE {clock}

\* The completion lambda of the body read runs: the remote sent
\* mIncomingBody.size() bytes, or the read failed.  The overlay manager
\* answers isPeerAccepted either way.
BodyHandler ==
    \E i \in DOMAIN reads :
      /\ reads[i].kind = "body"
      /\ Len(writes) + 2 <= MaxWrites
      /\ \/ /\ reads[i].open
            /\ \E d \in PayloadsOfSize(mIncomingBody), accepted \in BOOLEAN :
                 \E now \in Nows(d) :
                   Commit(readBodyHandler(
                            [St EXCEPT !.reads = RemoveAt(@, i),
                                       !.clock = now], FALSE, d, accepted))
         \/ Commit(readBodyHandler([St EXCEPT !.reads = RemoveAt(@, i)],
                                    TRUE, Malformed, FALSE))

\* The rest of the overlay sends a message through a peer it still holds.
Send ==
    /\ mState \in {"ACTIVE", "CLOSING"}
    /\ dropPeerCalls = 0
    /\ sends < MaxSends
    /\ Len(writes) < MaxWrites
    /\ Commit(sendMessage([St EXCEPT !.sends = @ + 1], "TRANSACTION"))

\* The completion lambda of a write runs: all the bytes were written, or
\* the write failed.
WriteHandler ==
    \E i \in DOMAIN writes :
      \/ /\ writes[i].open
         /\ Commit(writeLambda(St, i, FALSE))
      \/ Commit(writeLambda(St, i, TRUE))

\* The io_service runs a posted teardown lambda.  shutdown() succeeds on a
\* connected socket and fails (not connected) on one whose connect failed.
Teardown ==
    /\ posted > 0
    /\ \E shutdownFails \in {sock # "open"} :
         Commit(dropLambda(St, shutdownFails))

Next ==
    \/ Accept
    \/ Initiate
    \/ ConnectHandler
    \/ TimerFires
    \/ TimerHandler
    \/ HeaderHandler
    \/ BodyHandler
    \/ Send
    \/ WriteHandler
    \/ Teardown

Spec == Init /\ [][Next]_vars

\* The header decoder alone: a connection is made and the remote sends
\* one header drawn from WireHeaders.
WireHeaderHandler ==
    \E i \in DOMAIN reads :
      /\ reads[i].kind = "header"
      /\ reads[i].open
      /\ frames < MaxFrames
      /\ \E h \in WireHeaders :
           Commit(readHeaderHandler(
                    [St EXCEPT !.reads = RemoveAt(@, i),
                               !.mIncomingHeader = h,
                               !.frames = @ + 1], FALSE))

NextCodec ==
    \/ Accept
    \/ Initiate
    \/ ConnectHandler
    \/ WireHeaderHandler

SpecCodec == Init /\ [][NextCodec]_vars

----------------------------------------------------------------------------
\* Properties

\* C1: however many times drop() is called, from whichever handlers and in
\* whichever order with the posted teardown lambda, dropPeer and close are
\* called once: never before the first drop(), never twice, and once the
\* one posted lambda has run.
C1_DropOnce ==
    /\ dropPeerCalls = closeCalls
    /\ dropCalls = 0 => (posted = 0 /\ dropPeerCalls = 0)
    /\ dropCalls >= 1 => posted + dropPeerCalls = 1

\* drop() was called from the timer, from a failed write and once more, and
\* the teardown lambda has run.
C1_Witness ==
    /\ dropCalls >= 3
    /\ timerDrops >= 1
    /\ writeErrors >= 1
    /\ posted = 0
    /\ dropPeerCalls = 1
    /\ closeCalls = 1

\* C2: on an accepted connection the timeout teardown and the successful
\* handshake are never both observed.
C2_TimeoutOrHandshake ==
    created = "accept" => ~(timerDrops > 0 /\ handshakes > 0)

\* C3: a header that decodes to more than MAX_MESSAGE_SIZE tears the
\* connection down, and no read is started after it.
C3_OversizeStopsReads ==
    oversize => (mState = "CLOSING" /\ ~readAfterOversize)

\* C4: mIncomingBody never holds more than MAX_MESSAGE_SIZE bytes.
C4_BodyWithinMax == mIncomingBody <= MAX_MESSAGE_SIZE

\* C5: a body that fails to decode tears the connection down, and no
\* exception leaves the handler.
C5_DecodeFailureTearsDown ==
    decodeFailed => (mState = "CLOSING" /\ posted + dropPeerCalls = 1 /\ ~fault)

\* C6: the header read that follows a dispatched message is never started
\* on a connection that is CLOSING.
C6_NoRearmWhileClosing == "header" \notin closingRead

\* C7: once the timer has fired and its drop() has made the state CLOSING,
\* no step loads or stores a peer record, asks isPeerAccepted, or sends a
\* hello or the peers.
C7_LateHelloNoOp ==
    [][(timerDrops > 0 /\ mState = "CLOSING") =>
         /\ loadCalls' = loadCalls
         /\ storeCalls' = storeCalls
         /\ acceptQueries' = acceptQueries
         /\ sentHello' = sentHello
         /\ sentPeers' = sentPeers]_vars

C9_BufferOutlivesWrite ==
    /\ \A i \in DOMAIN writes : writes[i].buf \in bufs
    /\ bufs = { writes[i].buf : i \in DOMAIN writes }
    /\ nextBuf - 1 = Len(writes) + mMessageWrite + writeErrors

\* A write issued before drop() is still in flight after the socket was
\* closed, beside another write; one write has succeeded.
C9_Witness ==
    /\ closeCalls = 1
    /\ Len(writes) >= 2
    /\ \E i \in DOMAIN writes : writes[i].open
    /\ mMessageWrite >= 1

\* C10: the step that answers a hello on the capacity-rejection branch
\* sends the peers and no hello, leaves the state CLOSING, and issues the
\* write while the socket is not yet closed.
C10_CapacityRejection ==
    [][capRejects' = capRejects + 1 =>
         /\ created = "accept"
         /\ sentPeers' = sentPeers + 1
         /\ sentHello' = sentHello
         /\ mState' = "CLOSING"
         /\ sock # "closed"
         /\ writes'[Len(writes')].open]_vars

C12_OutboundClearsBackoff ==
    [][(created = "initiate" /\ handshakes' = handshakes + 1) =>
         /\ db'[mRemoteListeningPort'] =
              [mNumFailures |-> 0, mNextAttempt |-> clock']
         /\ loadCalls' = loadCalls + 1
         /\ storeCalls' = storeCalls + 1
         /\ sentHello' = sentHello
         /\ sentPeers' = sentPeers
         /\ writes' = writes
         /\ acceptQueries' = acceptQueries
         /\ dropCalls' = dropCalls
         /\ mState' = mState]_vars

\* A connection we initiated has completed the handshake at time 1: the
\* record, whatever it was, has no failures and the next attempt at 1.
C12_Witness ==
    /\ created = "initiate"
    /\ handshakes = 1
    /\ clock = 1
    /\ storeCalls = 1
    /\ db[mRemoteListeningPort] = [mNumFailures |-> 0, mNextAttempt |-> 1]
    /\ mState = "ACTIVE"

\* C13: on an accepted connection whose timer expires before any hello
\* has been processed, the state is CLOSING, the teardown that notifies
\* the registry is posted or has run, and no record is loaded or stored
\* for the connection, then or later.
C13_TimeoutWithoutHello ==
    [][(created = "accept" /\ timerDrops' > 0 /\ handshakes = 0) =>
         /\ mState' = "CLOSING"
         /\ posted' + dropPeerCalls' >= 1
         /\ loadCalls' = 0
         /\ storeCalls' = 0]_vars

C15_RoundTrip ==
    [][\A l \in WireLengths, r \in {0, 1} :
         (frames' = frames + 1 /\ mIncomingHeader' = EncodeLength(l, r)) =>
           /\ mIncomingBody' = l
           /\ DecodeLength(mIncomingHeader') = l]_vars

\* The header of 0x0FFFFFFF with the reserved bit set was decoded.
C15_Witness ==
    /\ frames = 1
    /\ mIncomingHeader = <<143, 255, 255, 255>>
    /\ mIncomingBody = 268435455

\* C16: a connection has at most one read in flight.  While it is a header
\* read, every header received so far has had its body received and handed
\* to recvMessage; while it is a body read, exactly the last header is
\* still waiting for its body.
C16_OneReadOutstanding ==
    /\ Len(reads) <= 1
    /\ \A k \in DOMAIN reads :
         /\ reads[k].kind = "header" => mMessageRead = frames
         /\ reads[k].kind = "body" => frames = mMessageRead + 1

\* The first frame was read and dispatched, and the header read for the
\* second frame is the one read in flight.
C16_Witness ==
    /\ frames = 1
    /\ mMessageRead = 1
    /\ dispatched = 1
    /\ Len(reads) = 1
    /\ reads[1].kind = "header"

\* C17: mState never moves back (NONE, CONNECTING, ACTIVE, CLOSING in that
\* order), and once it is CLOSING no step changes it.
C17_StateOnlyForward ==
    [][LET rank == [NONE |-> 0, CONNECTING |-> 1, ACTIVE |-> 2, CLOSING |-> 3]
       IN  /\ rank[mState'] >= rank[mState]
           /\ mState = "CLOSING" => mState' = "CLOSING"]_vars

\* A connection still CLOSING after the timer expired, a handshake was
\* completed, a second drop() was called and the teardown ran.
C17_Witness ==
    /\ mState = "CLOSING"
    /\ timerDrops = 1
    /\ handshakes = 1
    /\ dropCalls >= 2
    /\ dropPeerCalls = 1

\* C18: a drop() on a connection that is not CLOSING makes it CLOSING in the
\* same step and posts the teardown; no step other than the posted lambda
\* notifies the registry, shuts down or closes the socket; the lambda
\* calls dropPeer, then shutdown, then close, and closes the socket
\* without an exception whether shutdown failed or not.
C18_DeferredTeardown ==
    [][/\ (dropCalls' > dropCalls /\ mState # "CLOSING") =>
            (mState' = "CLOSING" /\ posted' = posted + 1)
       /\ posted' >= posted =>
            /\ teardownLog' = teardownLog
            /\ dropPeerCalls' = dropPeerCalls
            /\ shutdownCalls' = shutdownCalls
            /\ closeCalls' = closeCalls
            /\ sock' = "closed" => sock = "closed"
       /\ posted' < posted =>
            /\ \E sd \in {"shutdown", "shutdown failed"} :
                 teardownLog' = teardownLog \o <<"dropPeer", sd, "close">>
            /\ dropPeerCalls' = dropPeerCalls + 1
            /\ shutdownCalls' = shutdownCalls + 1
            /\ closeCalls' = closeCalls + 1
            /\ sock' = "closed"
            /\ fault' = fault]_vars

\* The teardown ran after a failed connect: shutdown failed and the socket
\* was closed all the same.
C18_Witness ==
    /\ created = "initiate"
    /\ mState = "CLOSING"
    /\ teardownLog = <<"dropPeer", "shutdown failed", "close">>
    /\ closeCalls = 1
    /\ sock = "closed"
    /\ ~fault

\* C19: a step that completes a write takes that one write out of those in
\* flight and leaves the others; either it succeeded, the messages-written
\* meter goes up by one and the bytes-written meter by the size of the
\* buffer, and nothing is dropped and the state is unchanged; or it failed,
\* neither meter moves, and drop() is called once, leaving CLOSING.
C19_WriteCompletion ==
    [][Len(writes') < Len(writes) =>
         \E i \in DOMAIN writes :
           /\ writes' = RemoveAt(writes, i)
           /\ \/ /\ writeErrors' = writeErrors
                 /\ mMessageWrite' = mMessageWrite + 1
                 /\ mByteWrite' = mByteWrite + RawSize[writes[i].msg]
                 /\ dropCalls' = dropCalls
                 /\ posted' = posted
                 /\ mState' = mState
              \/ /\ writeErrors' = writeErrors + 1
                 /\ mMessageWrite' = mMessageWrite
                 /\ mByteWrite' = mByteWrite
                 /\ dropCalls' = dropCalls + 1
                 /\ mState' = "CLOSING"]_vars

\* Of three writes, the hello completed with success and was metered, one
\* failed and dropped the connection, and one is still in flight.
C19_Witness ==
    /\ mMessageWrite = 1
    /\ mByteWrite = RawSize["HELLO"]
    /\ writeErrors = 1
    /\ Len(writes) = 1
    /\ mState = "CLOSING"

\* C20: on an accepted connection no step changes a record that exists; the
\* step that processes a valid hello from a remote with a record loads it,
\* asks for admission and stores nothing; and on either kind of
\* connection a step that completes no handshake, a hello rejected by base
\* validation among them, loads and stores nothing.
C20_AcceptedKeepsRecord ==
    [][/\ created = "accept" =>
            \A p \in Ports : db[p] # NoRecord => db'[p] = db[p]
       /\ (/\ created = "accept"
           /\ handshakes' = handshakes + 1
           /\ db[mRemoteListeningPort'] # NoRecord) =>
            /\ loadCalls' = loadCalls + 1
            /\ acceptQueries' = acceptQueries + 1
            /\ storeCalls' = storeCalls
       /\ handshakes' = handshakes =>
            /\ loadCalls' = loadCalls
            /\ storeCalls' = storeCalls
            /\ db' = db]_vars

\* An accepted connection processed a valid hello from a remote with a
\* record and turned it away for capacity: the record was loaded, nothing
\* was stored, the record is as it was.
C20_Witness ==
    /\ created = "accept"
    /\ handshakes = 1
    /\ capRejects = 1
    /\ loadCalls = 1
    /\ storeCalls = 0
    /\ db[mRemoteListeningPort] = OldRecord

====
